---- MODULE Spec2Model ----
(***************************************************************************)
(* Model of the mpl115a2 driver class (src/mpl115a2.py): the register map  *)
(* and device address set by __init__, the register I/O helpers, the       *)
(* two's-complement decoding of __getSigned, the measurement cycle of      *)
(* getPressTemp and the guarded register write of setReg.                  *)
(*                                                                         *)
(* The I2C master is the environment: every transaction either completes   *)
(* (a read returns the requested number of register bytes) or raises       *)
(* IOError.  Each transaction the driver hands to the master is appended   *)
(* to the history variable bus, which is cleared when a public method is   *)
(* entered.                                                                *)
(*                                                                         *)
(* Numbers.  TLC integers are 32 bits wide, and the pressure computation   *)
(* needs about 50.  The doubles of lines 157-163 are dyadic rationals      *)
(* whose denominators divide 2^22 and whose numerators stay far below      *)
(* 2^53, so the double arithmetic of those lines is exact; it is modelled  *)
(* exactly, as fixed point pairs <<i, f>> standing for i + f / 2^22 with   *)
(* 0 <= f < 2^22.  The value returned by round(.., 2) is modelled as an    *)
(* integer number of hundredths and the one returned by round(.., 1) as an *)
(* integer number of tenths.                                               *)
(***************************************************************************)
EXTENDS Integers, Sequences, FiniteSets, TLC

VARIABLES
    mpl115a2Addr,      \* the argument the constructor was called with
    addr,              \* self.__addr
    regs,              \* the reg* attributes of the object: name -> offset
    pc,                \* position of the driver
    op,                \* the public method being executed
    register,          \* setReg: argument register
    value,             \* setReg: argument value
    coefficientBytes,  \* getPressTemp: local coefficientBytes (<<>>: unbound)
    adcBytes,          \* getPressTemp: local adcBytes (<<>>: unbound)
    signedCoef,        \* getPressTemp: <<a0, b1, b2, c12>> after lines 151-154
    adc,               \* getPressTemp: <<pAdc, tAdc>> after lines 147-148
    retVal,            \* getPressTemp: local retVal, <<hundredths kPa, tenths C>>
    outcome,           \* how the method ended: "none" while it runs
    result,            \* the value handed to the caller (<<>>: nothing)
    bus,               \* transactions handed to the I2C master in this call
    sinceConvert,      \* ms since the conversion write completed (-1: none)
    calls,             \* public method calls started so far
    unsigned,          \* __getSigned: argument unsigned
    bits,              \* __getSigned: argument bits
    signed             \* __getSigned: local signed

vars == <<mpl115a2Addr, addr, regs, pc, op, register, value, coefficientBytes,
          adcBytes, signedCoef, adc, retVal, outcome, result, bus,
          sinceConvert, calls, unsigned, bits, signed>>

(***************************************************************************)
(* Bounds of the model.                                                    *)
(***************************************************************************)
\* public method calls made on one driver object
MaxCalls == 2
\* by how many ms time.sleep may overshoot the requested delay
MaxOversleep == 2

(***************************************************************************)
(* Integer helpers: Python's <<, >>, & and | on non-negative integers.     *)
(***************************************************************************)
RECURSIVE Pow2(_)
Pow2(n) == IF n = 0 THEN 1 ELSE 2 * Pow2(n - 1)

Shl(x, n) == x * Pow2(n)

Shr(x, n) == x \div Pow2(n)

RECURSIVE BitAnd(_, _)
BitAnd(x, y) ==
    IF x = 0 \/ y = 0 THEN 0
    ELSE (x % 2) * (y % 2) + 2 * BitAnd(x \div 2, y \div 2)

RECURSIVE BitOr(_, _)
BitOr(x, y) ==
    IF x = 0 THEN y
    ELSE IF y = 0 THEN x
    ELSE (IF x % 2 = 1 \/ y % 2 = 1 THEN 1 ELSE 0)
         + 2 * BitOr(x \div 2, y \div 2)

(***************************************************************************)
(* __getSigned(unsigned, bits = 16), lines 99-116.                         *)
(***************************************************************************)
\* Mutation: the sign is looked for one bit too high.
getSignedSignBitOff(u, b) ==
    IF BitAnd(u, Shl(1, b)) # 0 THEN u - Shl(1, b) ELSE u

getSigned(u, b) ==
    IF BitAnd(u, Shl(1, b - 1)) # 0 THEN u - Shl(1, b) ELSE u

(***************************************************************************)
(* The object built by __init__, lines 25-46.  regCfgA, regCfgB and        *)
(* regMode, the names setReg reads, are not among the attributes.          *)
(***************************************************************************)
RegisterMap ==
    [regPadcMSB |-> 0,  regPadcLSB |-> 1,  regTadcMSB |-> 2,
     regTadcLSB |-> 3,  regA0MSB   |-> 4,  regA0LSB   |-> 5,
     regB1MSB   |-> 6,  regB1LSB   |-> 7,  regB2MSB   |-> 8,
     regB2LSB   |-> 9,  regC12MSB  |-> 10, regC12LSB  |-> 11,
     regConvert |-> 18]

\* default of the constructor's mpl115a2Addr, 0x60
DefaultAddr == 96

\* the byte written to regConvert to start a conversion, line 138
ConvertCommand == 0

\* the argument of time.sleep, line 141, in ms
ConversionDelay == 40

(***************************************************************************)
(* Fixed point: <<i, f>> is i + f / 2^22, 0 <= f < 2^22.                   *)
(***************************************************************************)
\* 2^22, the divisor of line 160
FxOne == 4194304

FxHalf == FxOne \div 2

FxLimb == Pow2(11)

\* n / 2^k as a fixed point value, for 0 <= k <= 22: the divisions of
\* lines 157-160.
FxDiv2(n, k) == <<n \div Pow2(k), (n % Pow2(k)) * Pow2(22 - k)>>

FxAdd(x, y) ==
    LET f == x[2] + y[2]
    IN  <<x[1] + y[1] + (f \div FxOne), f % FxOne>>

\* x * k for an integer 0 <= k < 2^19; the fraction is multiplied in two
\* 11-bit limbs so that no product leaves 32 bits.
FxMul(x, k) ==
    LET hk == (x[2] \div FxLimb) * k
        lk == (x[2] % FxLimb) * k
        mid == hk + (lk \div FxLimb)
    IN  <<(x[1] * k) + (mid \div FxLimb),
          ((mid % FxLimb) * FxLimb) + (lk % FxLimb)>>

(***************************************************************************)
(* getPressTemp, lines 131-167: the computation between the reads and the  *)
(* return.                                                                 *)
(***************************************************************************)
\* (bytes[i] << 8) | bytes[i+1], with the source's 0-based index i
Word(bytes, i) == BitOr(Shl(bytes[i + 1], 8), bytes[i + 2])

\* Mutation: the two padding bits of c12 are not shifted out.
RawC12NoShift(cb) == Word(cb, 6)

\* line 135
RawC12(cb) == Shr(Word(cb, 6), 2)

\* Mutation: the ADC counts are taken as 12-bit values.
AdcCountsShift4(ab) == <<Shr(Word(ab, 0), 4), Shr(Word(ab, 2), 4)>>

\* lines 147-148: <<pAdc, tAdc>>
AdcCounts(ab) == <<Shr(Word(ab, 0), 6), Shr(Word(ab, 2), 6)>>

\* lines 131-135 and 151-154: <<a0, b1, b2, c12>> as signed integers
SignedCoefficients(cb) ==
    <<getSigned(Word(cb, 0), 16), getSigned(Word(cb, 2), 16),
      getSigned(Word(cb, 4), 16), getSigned(RawC12(cb), 14)>>

\* lines 157-163: pComp = a0 + (b1 + c12 * tAdc) * pAdc + b2 * tAdc
PComp(sc, ad) ==
    LET a0  == FxDiv2(sc[1], 3)
        b1  == FxDiv2(sc[2], 13)
        b2  == FxDiv2(sc[3], 14)
        c12 == FxDiv2(sc[4], 22)
        pAdc == ad[1]
        tAdc == ad[2]
    IN  FxAdd(FxAdd(a0, FxMul(FxAdd(b1, FxMul(c12, tAdc)), pAdc)),
              FxMul(b2, tAdc))

\* line 164: round(pComp * (65.0 / 1023.0) + 50, 2), in hundredths.  The
\* exact value is 5000 + pComp * 6500 / 1023.  A value that is not a tie is
\* at least 2^-28 hundredths away from one, far more than the error of the
\* two double operations, and at a tie (pComp = m * 1023 / 8, m odd) the
\* double is the tie itself, which round() takes to the even neighbour.
PressureHundredths(pComp) ==
    LET y == FxMul(pComp, 6500)
        q == y[1] \div 1023
        r == y[1] % 1023
        up == \/ r > 511
              \/ r = 511 /\ y[2] > FxHalf
              \/ r = 511 /\ y[2] = FxHalf /\ q % 2 = 1
    IN  5000 + q + (IF up THEN 1 ELSE 0)

\* line 167: round((tAdc - 498.0) / -5.35 + 25.0, 1), in tenths.  The exact
\* value is 250 + (498 - tAdc) * 200 / 107, never a tie and never closer
\* than 1/214 to one.
TemperatureTenths(tAdc) ==
    LET n == (498 - tAdc) * 200
        q == n \div 107
        r == n % 107
    IN  250 + q + (IF 2 * r > 107 THEN 1 ELSE 0)

\* lines 131-167 together: the retVal built from the two byte arrays
PressTemp(cb, ab) ==
    <<PressureHundredths(PComp(SignedCoefficients(cb), AdcCounts(ab))),
      TemperatureTenths(AdcCounts(ab)[2])>>

(***************************************************************************)
(* The environment: the bytes a device can hold in registers 0x00-0x0B     *)
(* and the arguments callers pass.                                         *)
(***************************************************************************)
BytesOf(words) ==
    [i \in 1..(2 * Len(words)) |->
        IF i % 2 = 1 THEN words[(i + 1) \div 2] \div 256
                     ELSE words[i \div 2] % 256]

\* [0x3E,0xE8, 0x01,0x3C, 0x00,0x00, 0x7D,0x98]
ExampleCoefficients == <<62, 232, 1, 60, 0, 0, 125, 152>>

\* [0x6C,0x00, 0x7A,0x40]
ExampleAdc == <<108, 0, 122, 64>>

\* a part's coefficients 0x3ECE 0xB3F9 0xC517 0x33C8 and a reading near
\* 96.6 kPa; a0 = 0x7FFF with the rest clear
CoefSamples ==
    {ExampleCoefficients, BytesOf(<<16078, 46073, 50455, 13256>>),
     BytesOf(<<32767, 0, 0, 0>>)}

AdcSamples == {ExampleAdc, BytesOf(<<26240, 32448>>), BytesOf(<<0, 0>>)}

\* register images, index 1..12 for registers 0x00..0x0B
Images == {a \o c : a \in AdcSamples, c \in CoefSamples}

Addresses == {DefaultAddr, 118}

SetRegRegisters == {0, 1, 2, 3, 5, 18}

SetRegValues == {0, 255}

(***************************************************************************)
(* Register I/O, lines 67-97.                                              *)
(***************************************************************************)
\* line 77
RegCount(regStart, regEnd) == (regEnd - regStart) + 1

\* what the device returns for a range read of n bytes from regStart
Slice(img, regStart, n) == [i \in 1..n |-> img[regStart + i]]

\* line 80: one transaction, writing_bytes(addr, regStart) then
\* reading(addr, regCount)
ReadTx(regStart, regEnd, ok, img) ==
    [op |-> "read", addr |-> addr, out |-> <<regStart>>,
     count |-> RegCount(regStart, regEnd), ok |-> ok,
     data |-> IF ok THEN Slice(img, regStart, RegCount(regStart, regEnd))
              ELSE <<>>,
     at |-> sinceConvert]

\* line 95: one transaction, writing_bytes(addr, register, byte)
WriteTx(reg, byte, ok) ==
    [op |-> "write", addr |-> addr, out |-> <<reg, byte>>, count |-> 0,
     ok |-> ok, data |-> <<>>, at |-> sinceConvert]

\* an exception leaves the method: nothing is returned
Raise(exc) ==
    /\ pc' = "done"
    /\ outcome' = exc
    /\ result' = <<>>

(***************************************************************************)
(* Construction.                                                           *)
(***************************************************************************)
Idle ==
    /\ regs = RegisterMap
    /\ op = "none"
    /\ register = 0
    /\ value = 0
    /\ coefficientBytes = <<>>
    /\ adcBytes = <<>>
    /\ signedCoef = <<>>
    /\ adc = <<>>
    /\ retVal = <<>>
    /\ outcome = "none"
    /\ result = <<>>
    /\ bus = <<>>
    /\ sinceConvert = -1
    /\ calls = 0
    /\ unsigned = 0
    /\ bits = 16
    /\ signed = 0

Init ==
    /\ mpl115a2Addr \in Addresses
    /\ addr = mpl115a2Addr
    /\ pc = "idle"
    /\ Idle

(***************************************************************************)
(* getPressTemp, lines 118-169.                                            *)
(***************************************************************************)
\* Mutation: coefficients read by an earlier call are kept and not re-read.
GetPressTempCallCached ==
    /\ pc \in {"idle", "done"}
    /\ calls < MaxCalls
    /\ calls' = calls + 1
    /\ op' = "getPressTemp"
    /\ pc' = IF coefficientBytes = <<>> THEN "readCoefficients" ELSE "convert"
    /\ retVal' = <<0, 0>>
    /\ adcBytes' = <<>>
    /\ signedCoef' = <<>>
    /\ adc' = <<>>
    /\ outcome' = "none"
    /\ result' = <<>>
    /\ bus' = <<>>
    /\ sinceConvert' = -1
    /\ UNCHANGED <<mpl115a2Addr, addr, regs, register, value,
                   coefficientBytes, unsigned, bits, signed>>

\* the call: a fresh frame, and line 126
GetPressTempCall ==
    /\ pc \in {"idle", "done"}
    /\ calls < MaxCalls
    /\ calls' = calls + 1
    /\ op' = "getPressTemp"
    /\ pc' = "readCoefficients"
    /\ retVal' = <<0, 0>>
    /\ coefficientBytes' = <<>>
    /\ adcBytes' = <<>>
    /\ signedCoef' = <<>>
    /\ adc' = <<>>
    /\ outcome' = "none"
    /\ result' = <<>>
    /\ bus' = <<>>
    /\ sinceConvert' = -1
    /\ UNCHANGED <<mpl115a2Addr, addr, regs, register, value, unsigned, bits,
                   signed>>

\* Mutation: a failed coefficient read is swallowed and zeros are used.
ReadCoefficientsSwallow ==
    /\ pc = "readCoefficients"
    /\ \E ok \in BOOLEAN, img \in Images :
          LET tx == ReadTx(regs.regA0MSB, regs.regC12LSB, ok, img)
          IN  /\ bus' = Append(bus, tx)
              /\ coefficientBytes' =
                     IF ok THEN tx.data ELSE <<0, 0, 0, 0, 0, 0, 0, 0>>
              /\ pc' = "convert"
              /\ UNCHANGED <<outcome, result>>
    /\ UNCHANGED <<mpl115a2Addr, addr, regs, op, register, value, adcBytes,
                   signedCoef, adc, retVal, sinceConvert, calls, unsigned,
                   bits, signed>>

\* line 129
ReadCoefficients ==
    /\ pc = "readCoefficients"
    /\ \E ok \in BOOLEAN, img \in Images :
          LET tx == ReadTx(regs.regA0MSB, regs.regC12LSB, ok, img)
          IN  /\ bus' = Append(bus, tx)
              /\ IF ok
                 THEN /\ coefficientBytes' = tx.data
                      /\ pc' = "convert"
                      /\ UNCHANGED <<outcome, result>>
                 ELSE /\ Raise("IOError")
                      /\ UNCHANGED coefficientBytes
    /\ UNCHANGED <<mpl115a2Addr, addr, regs, op, register, value, adcBytes,
                   signedCoef, adc, retVal, sinceConvert, calls, unsigned,
                   bits, signed>>

\* Mutation: a failed conversion write ends the call with the default
\* retVal instead of an exception.
TriggerConversionReturnsDefault ==
    /\ pc = "convert"
    /\ \E ok \in BOOLEAN :
          /\ bus' = Append(bus, WriteTx(regs.regConvert, ConvertCommand, ok))
          /\ IF ok
             THEN /\ pc' = "sleep"
                  /\ sinceConvert' = 0
                  /\ UNCHANGED <<outcome, result>>
             ELSE /\ pc' = "done"
                  /\ outcome' = "returned"
                  /\ result' = retVal
                  /\ UNCHANGED sinceConvert
    /\ UNCHANGED <<mpl115a2Addr, addr, regs, op, register, value,
                   coefficientBytes, adcBytes, signedCoef, adc, retVal, calls,
                   unsigned, bits, signed>>

\* line 138
TriggerConversion ==
    /\ pc = "convert"
    /\ \E ok \in BOOLEAN :
          /\ bus' = Append(bus, WriteTx(regs.regConvert, ConvertCommand, ok))
          /\ IF ok
             THEN /\ pc' = "sleep"
                  /\ sinceConvert' = 0
                  /\ UNCHANGED <<outcome, result>>
             ELSE /\ Raise("IOError")
                  /\ UNCHANGED sinceConvert
    /\ UNCHANGED <<mpl115a2Addr, addr, regs, op, register, value,
                   coefficientBytes, adcBytes, signedCoef, adc, retVal, calls,
                   unsigned, bits, signed>>

\* Mutation: time.sleep(0.004).
SleepTooShort ==
    /\ pc = "sleep"
    /\ \E over \in 0..MaxOversleep : sinceConvert' = sinceConvert + 4 + over
    /\ pc' = "readAdc"
    /\ UNCHANGED <<mpl115a2Addr, addr, regs, op, register, value,
                   coefficientBytes, adcBytes, signedCoef, adc, retVal,
                   outcome, result, bus, calls, unsigned, bits, signed>>

\* line 141: time.sleep returns after the delay or later
Sleep ==
    /\ pc = "sleep"
    /\ \E over \in 0..MaxOversleep :
          sinceConvert' = sinceConvert + ConversionDelay + over
    /\ pc' = "readAdc"
    /\ UNCHANGED <<mpl115a2Addr, addr, regs, op, register, value,
                   coefficientBytes, adcBytes, signedCoef, adc, retVal,
                   outcome, result, bus, calls, unsigned, bits, signed>>

\* lines 147-169, once both byte arrays are bound
Compute(cb, ab) ==
    /\ adc' = AdcCounts(ab)
    /\ signedCoef' = SignedCoefficients(cb)
    /\ retVal' = PressTemp(cb, ab)
    /\ result' = retVal'
    /\ outcome' = "returned"
    /\ pc' = "done"

\* Mutation: the ADC registers are read in two transactions of two bytes.
ReadAdcSplit ==
    /\ pc = "readAdc"
    /\ \E ok \in BOOLEAN, img \in Images :
          LET tp == ReadTx(regs.regPadcMSB, regs.regPadcLSB, TRUE, img)
              tt == ReadTx(regs.regTadcMSB, regs.regTadcLSB, ok, img)
          IN  /\ bus' = bus \o <<tp, tt>>
              /\ IF ok
                 THEN /\ adcBytes' = tp.data \o tt.data
                      /\ Compute(coefficientBytes, adcBytes')
                 ELSE /\ Raise("IOError")
                      /\ UNCHANGED <<adcBytes, adc, signedCoef, retVal>>
    /\ UNCHANGED <<mpl115a2Addr, addr, regs, op, register, value,
                   coefficientBytes, sinceConvert, calls, unsigned, bits,
                   signed>>

\* lines 144-169
ReadAdc ==
    /\ pc = "readAdc"
    /\ \E ok \in BOOLEAN, img \in Images :
          LET tx == ReadTx(regs.regPadcMSB, regs.regTadcLSB, ok, img)
          IN  /\ bus' = Append(bus, tx)
              /\ IF ok
                 THEN /\ adcBytes' = tx.data
                      /\ Compute(coefficientBytes, adcBytes')
                 ELSE /\ Raise("IOError")
                      /\ UNCHANGED <<adcBytes, adc, signedCoef, retVal>>
    /\ UNCHANGED <<mpl115a2Addr, addr, regs, op, register, value,
                   coefficientBytes, sinceConvert, calls, unsigned, bits,
                   signed>>

(***************************************************************************)
(* setReg, lines 171-182.  The condition of line 179 reads self.regCfgA    *)
(* and, when the first comparison is true, self.regMode; reading an        *)
(* attribute the object does not have raises AttributeError.               *)
(***************************************************************************)
HasAttr(name) == name \in DOMAIN regs

SetReg ==
    /\ pc \in {"idle", "done"}
    /\ calls < MaxCalls
    /\ calls' = calls + 1
    /\ op' = "setReg"
    /\ pc' = "done"
    /\ \E r \in SetRegRegisters, v \in SetRegValues, ok \in BOOLEAN :
          /\ register' = r
          /\ value' = v
          /\ IF \/ ~HasAttr("regCfgA")
                \/ (r >= regs["regCfgA"] /\ ~HasAttr("regMode"))
             THEN /\ outcome' = "AttributeError"
                  /\ bus' = <<>>
             ELSE IF r >= regs["regCfgA"] /\ r <= regs["regMode"]
             THEN /\ bus' = <<WriteTx(r, v, ok)>>
                  /\ outcome' = IF ok THEN "returned" ELSE "IOError"
             ELSE /\ outcome' = "ValueError"
                  /\ bus' = <<>>
    /\ result' = <<>>
    /\ coefficientBytes' = <<>>
    /\ adcBytes' = <<>>
    /\ signedCoef' = <<>>
    /\ adc' = <<>>
    /\ retVal' = <<>>
    /\ sinceConvert' = -1
    /\ UNCHANGED <<mpl115a2Addr, addr, regs, unsigned, bits, signed>>

Next ==
    \/ GetPressTempCall
    \/ ReadCoefficients
    \/ TriggerConversion
    \/ Sleep
    \/ ReadAdc
    \/ SetReg

Spec == Init /\ [][Next]_vars

(***************************************************************************)
(* __getSigned on its own: every unsigned value of the two widths the      *)
(* driver uses.                                                            *)
(***************************************************************************)
SignedWidths == {14, 16}

InitSigned ==
    /\ mpl115a2Addr = DefaultAddr
    /\ addr = mpl115a2Addr
    /\ pc = "getSigned"
    /\ regs = RegisterMap
    /\ op = "none"
    /\ register = 0
    /\ value = 0
    /\ coefficientBytes = <<>>
    /\ adcBytes = <<>>
    /\ signedCoef = <<>>
    /\ adc = <<>>
    /\ retVal = <<>>
    /\ outcome = "none"
    /\ result = <<>>
    /\ bus = <<>>
    /\ sinceConvert = -1
    /\ calls = 0
    /\ bits \in SignedWidths
    /\ unsigned \in 0..(Pow2(bits) - 1)
    /\ signed = 0

\* lines 107-116
GetSignedCall ==
    /\ pc = "getSigned"
    /\ signed' = getSigned(unsigned, bits)
    /\ pc' = "done"
    /\ UNCHANGED <<mpl115a2Addr, addr, regs, op, register, value,
                   coefficientBytes, adcBytes, signedCoef, adc, retVal,
                   outcome, result, bus, sinceConvert, calls, unsigned, bits>>

NextSigned == GetSignedCall

SpecSigned == InitSigned /\ [][NextSigned]_vars

(***************************************************************************)
(* The computation of getPressTemp on its own, lines 131-169, over byte    *)
(* arrays the two range reads can return.                                  *)
(***************************************************************************)
A0Words == {16104, 0, 1023, 32767, 32768, 65535}

B1Words == {316, 0, 32767, 32768, 46073}

B2Words == {0, 32767, 32768, 50455}

C12Words == {32152, 0, 13256, 32764, 32768, 65535}

AdcWords == {27648, 31296, 0, 63, 65472, 65535}

CoefInputs ==
    {BytesOf(<<a, b, c, d>>) :
        a \in A0Words, b \in B1Words, c \in B2Words, d \in C12Words}

AdcInputs == {BytesOf(<<p, t>>) : p \in AdcWords, t \in AdcWords}

\* every value of the register pair 0x0A-0x0B
C12Inputs ==
    {<<62, 232, 1, 60, 0, 0, b6, b7>> : b6 \in 0..255, b7 \in 0..255}

Computing ==
    /\ mpl115a2Addr = DefaultAddr
    /\ addr = mpl115a2Addr
    /\ pc = "compute"
    /\ regs = RegisterMap
    /\ op = "getPressTemp"
    /\ register = 0
    /\ value = 0
    /\ signedCoef = <<>>
    /\ adc = <<>>
    /\ retVal = <<0, 0>>
    /\ outcome = "none"
    /\ result = <<>>
    /\ bus = <<>>
    /\ sinceConvert = -1
    /\ calls = 1
    /\ unsigned = 0
    /\ bits = 16
    /\ signed = 0

InitCalc ==
    /\ coefficientBytes \in CoefInputs
    /\ adcBytes \in AdcInputs
    /\ Computing

InitC12 ==
    /\ coefficientBytes \in C12Inputs
    /\ adcBytes = ExampleAdc
    /\ Computing

\* lines 131-169
Measure ==
    /\ pc = "compute"
    /\ Compute(coefficientBytes, adcBytes)
    /\ UNCHANGED <<mpl115a2Addr, addr, regs, op, register, value,
                   coefficientBytes, adcBytes, bus, sinceConvert, calls,
                   unsigned, bits, signed>>

NextCalc == Measure

SpecCalc == InitCalc /\ [][NextCalc]_vars

SpecC12 == InitC12 /\ [][NextCalc]_vars

(***************************************************************************)
(* Properties.                                                             *)
(***************************************************************************)
InGetPressTemp == op = "getPressTemp"

Returned == op = "getPressTemp" /\ pc = "done" /\ outcome = "returned"

\* what the bus sees of a transaction, apart from the bytes read and the time
Shape(tx) == <<tx.op, tx.addr, tx.out, tx.count>>

IsCoefficientRead(tx) == tx.op = "read" /\ tx.out = <<4>>

IsConvertWrite(tx) == tx.op = "write" /\ tx.out[1] = 18

IsAdcRead(tx) == tx.op = "read" /\ tx.out = <<0>>

\* C1: setReg(addr, value) with addr in [0x00, 0x02] issues exactly one
\* write of [addr, value] and succeeds when the write does; with any other
\* addr it fails with the not-writable error and issues no transaction.
C1_SetRegGuardedWrite ==
    (op = "setReg" /\ pc = "done") =>
        IF register \in 0..2
        THEN /\ Len(bus) = 1
             /\ Shape(bus[1]) = <<"write", mpl115a2Addr, <<register, value>>, 0>>
             /\ outcome = (IF bus[1].ok THEN "returned" ELSE "IOError")
        ELSE /\ bus = <<>>
             /\ outcome = "ValueError"

\* C2: within one getPressTemp call a conversion write is always preceded
\* by the successful coefficient read of that call, and a failed
\* coefficient read is the only transaction of its call.
C2_NoTriggerAfterFailedCoefficientRead ==
    InGetPressTemp =>
        /\ \A i \in 1..Len(bus) :
              IsConvertWrite(bus[i]) =>
                  /\ i > 1
                  /\ IsCoefficientRead(bus[1])
                  /\ bus[1].ok
        /\ (Len(bus) >= 1 /\ ~bus[1].ok) =>
              /\ Len(bus) = 1
              /\ pc = "done"
              /\ outcome = "IOError"

C2_Witness ==
    /\ InGetPressTemp
    /\ pc = "done"
    /\ Len(bus) = 1
    /\ IsCoefficientRead(bus[1])
    /\ ~bus[1].ok
    /\ outcome = "IOError"

\* C3: in getPressTemp a failed transaction is the last one of its call
\* (nothing follows it, it is not issued again), the call has ended with
\* IOError and nothing, neither a result nor the default [0, 0], was
\* returned; a call that returned a result saw no failure.
C3_FailFast ==
    InGetPressTemp =>
        /\ \A i \in 1..Len(bus) :
              ~bus[i].ok =>
                  /\ i = Len(bus)
                  /\ pc = "done"
                  /\ outcome = "IOError"
                  /\ result = <<>>
        /\ outcome = "IOError" => (Len(bus) >= 1 /\ ~bus[Len(bus)].ok)
        /\ \A i, j \in 1..Len(bus) : Shape(bus[i]) = Shape(bus[j]) => i = j

C3_Witness ==
    /\ InGetPressTemp
    /\ pc = "done"
    /\ outcome = "IOError"
    /\ result = <<>>
    /\ Len(bus) = 3
    /\ IsAdcRead(bus[3])
    /\ ~bus[3].ok

(***************************************************************************)
(* The pressure of the formula, stated on the integers: with               *)
(*   n = a0*2^19 + (b1*2^9 + c12*tAdc)*pAdc + b2*2^8*tAdc  (= pComp*2^22)  *)
(* the pressure in hundredths of a kPa is 5000 + 1625*n / (1023*2^20)      *)
(* rounded to the nearest integer.  n is kept as <<h, l>>, n = h*2^20 + l. *)
(***************************************************************************)
FormulaSigned16(hi, lo) ==
    IF 256 * hi + lo >= 32768 THEN 256 * hi + lo - 65536 ELSE 256 * hi + lo

FormulaC12(b6, b7) ==
    LET w == (256 * b6 + b7) \div 4
    IN  IF w >= 8192 THEN w - 16384 ELSE w

FormulaAdc(hi, lo) == (256 * hi + lo) \div 64

FormulaN(cb, ab) ==
    LET a0 == FormulaSigned16(cb[1], cb[2])
        b1 == FormulaSigned16(cb[3], cb[4])
        b2 == FormulaSigned16(cb[5], cb[6])
        c12 == FormulaC12(cb[7], cb[8])
        pAdc == FormulaAdc(ab[1], ab[2])
        tAdc == FormulaAdc(ab[3], ab[4])
        x == b1 * 512 + c12 * tAdc
        bt == b2 * tAdc
        hi == a0 * 512 + (x \div 1024) * pAdc + (bt \div 4)
        lo == (x % 1024) * pAdc + (bt % 4) * 256
        mid == hi + (lo \div 1024)
    IN  <<mid \div 1024, (mid % 1024) * 1024 + (lo % 1024)>>

\* p is the integer nearest to 5000 + 1625*n/(1023*2^20), the even one of
\* the two when the value lies half way:
\*   -1023*2^19 <= 1625*n - (p - 5000)*1023*2^20 <= 1023*2^19
IsNearestHundredth(p, n) ==
    LET v == 1625 * n[2]
        w == 1023 * (5000 - p) + 1625 * n[1] + (v \div 1048576)
        r == v % 1048576
    IN  /\ \/ w < 511
           \/ w = 511 /\ r < 524288
           \/ w = 511 /\ r = 524288 /\ p % 2 = 0
        /\ \/ w > -512
           \/ w = -512 /\ r > 524288
           \/ w = -512 /\ r = 524288 /\ p % 2 = 0

\* t is the integer nearest to 250 + (498 - tAdc) * 200 / 107, the
\* temperature (tAdc - 498) / -5.35 + 25 in tenths of a degree
IsNearestTenth(t, tAdc) ==
    LET d == 107 * (t - 250) - 200 * (498 - tAdc)
    IN  2 * d <= 107 /\ 2 * d >= -107

\* C4: the pressure getPressTemp computes from 8 coefficient bytes and 4
\* ADC bytes is the formula's value rounded to two decimals, and for the
\* example bytes it is 204.68 kPa.
C4_PressureFormula ==
    (InGetPressTemp /\ pc = "done" /\ outcome = "returned") =>
        /\ IsNearestHundredth(result[1], FormulaN(coefficientBytes, adcBytes))
        /\ (coefficientBytes = ExampleCoefficients /\ adcBytes = ExampleAdc)
              => result[1] = 20468

C4_Witness ==
    /\ Returned
    /\ coefficientBytes = ExampleCoefficients
    /\ adcBytes = ExampleAdc
    /\ result[1] = 20468

\* C5: a successful getPressTemp returns a pressure between 50 and 115 kPa.
C5_PressureInRange ==
    Returned => (result[1] >= 5000 /\ result[1] <= 11500)

\* C6: what a getPressTemp call returns is the formula applied to the bytes
\* the bus returned during that call, whatever calls came before: the call
\* starts with nothing of an earlier call bound, reads the coefficients
\* itself, and leaves the device address and the register map as
\* constructed.
C6_Stateless ==
    /\ addr = mpl115a2Addr
    /\ regs = RegisterMap
    /\ (InGetPressTemp /\ pc = "readCoefficients") =>
          /\ bus = <<>>
          /\ coefficientBytes = <<>>
          /\ adcBytes = <<>>
          /\ retVal = <<0, 0>>
    /\ Returned =>
          /\ Len(bus) = 3
          /\ IsCoefficientRead(bus[1]) /\ bus[1].ok
          /\ IsAdcRead(bus[3]) /\ bus[3].ok
          /\ IsNearestHundredth(result[1], FormulaN(bus[1].data, bus[3].data))
          /\ IsNearestTenth(result[2],
                            FormulaAdc(bus[3].data[3], bus[3].data[4]))

\* a second call that returns other values than the bytes of the first
\* call would give: the first call can only have seen other bytes
C6_Witness ==
    /\ Returned
    /\ calls = 2
    /\ bus[1].data = ExampleCoefficients
    /\ bus[3].data = ExampleAdc
    /\ result = <<20468, 267>>

\* C7: the ADC read is issued no sooner than 40 ms after the conversion
\* write completed.
C7_ConversionWait ==
    InGetPressTemp =>
        \A i \in 1..Len(bus) :
            IsAdcRead(bus[i]) =>
                /\ i > 1
                /\ IsConvertWrite(bus[i - 1])
                /\ bus[i - 1].ok
                /\ bus[i].at >= 40

C7_Witness ==
    /\ Returned
    /\ IsConvertWrite(bus[2])
    /\ IsAdcRead(bus[3])
    /\ bus[3].at = 40

\* C8: a getPressTemp call issues, in this order and each at most once, an
\* 8-byte range read from register 0x04, a write of [0x12, 0x00] and a
\* 4-byte range read from register 0x00, all to the address given to the
\* constructor; a successful call issues exactly these three and each read
\* returns all the bytes of its group.
ExpectedShapes ==
    <<<<"read", mpl115a2Addr, <<4>>, 8>>,
      <<"write", mpl115a2Addr, <<18, 0>>, 0>>,
      <<"read", mpl115a2Addr, <<0>>, 4>>>>

C8_ThreeTransactions ==
    InGetPressTemp =>
        /\ Len(bus) <= 3
        /\ \A i \in 1..Len(bus) : Shape(bus[i]) = ExpectedShapes[i]
        /\ Returned =>
              /\ Len(bus) = 3
              /\ \A i \in 1..3 : bus[i].ok
              /\ Len(bus[1].data) = 8
              /\ Len(bus[3].data) = 4
              /\ coefficientBytes = bus[1].data
              /\ adcBytes = bus[3].data

C8_Witness ==
    /\ Returned
    /\ Len(bus) = 3
    /\ addr = 118
    /\ bus[3].addr = 118

\* C9: for bits in {14, 16} and 0 <= x < 2^bits, toSigned(x, bits) is
\* x - 2^bits when bit (bits-1) of x is set and x otherwise, and lies in
\* [-2^(bits-1), 2^(bits-1) - 1].
C9_TwosComplement ==
    (pc = "done" /\ op = "none") =>
        /\ signed = IF (unsigned \div (2 ^ (bits - 1))) % 2 = 1
                    THEN unsigned - (2 ^ bits)
                    ELSE unsigned
        /\ signed >= -(2 ^ (bits - 1))
        /\ signed <= (2 ^ (bits - 1)) - 1
        /\ (unsigned = 32768 /\ bits = 16) => signed = -32768
        /\ (unsigned = 32767 /\ bits = 16) => signed = 32767
        /\ (unsigned = 8192 /\ bits = 14) => signed = -8192

C9_Witness ==
    /\ pc = "done"
    /\ op = "none"
    /\ bits = 14
    /\ unsigned = 8192
    /\ signed = -8192

\* C10: the c12 getPressTemp decodes from the bytes b6, b7 of registers
\* 0x0A-0x0B is the 14-bit two's-complement value of the pair shifted right
\* by two: it lies in [-8192, 8191], is negative exactly when bit 15 of the
\* pair is set, and agrees with the shifted pair modulo 2^14.
C10_C12Decode ==
    Returned =>
        LET b6 == coefficientBytes[7]
            b7 == coefficientBytes[8]
            c12 == signedCoef[4]
        IN  /\ c12 = FormulaC12(b6, b7)
            /\ c12 >= -8192
            /\ c12 <= 8191
            /\ (c12 < 0) <=> (b6 >= 128)
            /\ (c12 - ((256 * b6 + b7) \div 4)) % 16384 = 0

C10_Witness ==
    /\ Returned
    /\ coefficientBytes[7] = 255
    /\ coefficientBytes[8] = 255
    /\ signedCoef[4] = -1

====
